---------------------------- MODULE Spec2Model ----------------------------
(***************************************************************************)
(* A model of src/florence2.py: the Florence2 adapter (construction,       *)
(* task selection, dispatch), its geometric post-processing                *)
(* (_convert_bbox, _extract_detections, _extract_polylines) and the        *)
(* per-sample loops of run_florence2_model.                                *)
(*                                                                         *)
(* Numbers.  Raw coordinates and image sizes are integers (pixel units).   *)
(* Python's true division a / b is modelled exactly, as the fraction a/b   *)
(* in lowest terms <<numerator, denominator>> with denominator > 0, so two *)
(* quotients are equal exactly when they denote the same number.           *)
(*                                                                         *)
(* Python values.  An optional string is None == <<>> or Str(s) == <<s>>.  *)
(* A raised exception is the record [kind |-> "raise", exc |-> name].      *)
(***************************************************************************)
EXTENDS Integers, Sequences, FiniteSets, TLC

VARIABLES
    pc,             \* position of the running call
    kwargs,         \* the keyword arguments __init__ was called with
    operation,      \* self.operation
    params,         \* self.params: the keyword arguments, by name
    model,          \* self.model: "unset" or "loaded"
    processor,      \* self.processor: "unset" or "loaded"
    bbox,           \* argument of _convert_bbox
    image,          \* [width, height] of the PIL image
    task,           \* task identifier of the current call
    text,           \* text handed to the processor with the image
    n_generate,     \* calls of model.generate made by the current predict
    parsed_answer,  \* the processor's post-processed output for the task
    result,         \* value returned (or exception raised) by the call
    requested,      \* the operation argument __init__ was called with
    handler,        \* the method _predict called in the current predict
    dataset,        \* run_florence2_model: the samples' values of the field
    outputs,        \* run_florence2_model: the samples' output_field
    prompts,        \* by sample: the text its inference handed to the processor
    todo,           \* by loop: the samples still to iterate, current first
    step,           \* by loop: the position inside the loop body
    field_value,    \* by loop: the local caption / expression read from the sample
    sample_result   \* by loop: the local holding predict's return value

vars == <<pc, kwargs, operation, params, model, processor, bbox, image, task, text,
          n_generate, parsed_answer, result, requested, handler,
          dataset, outputs, prompts, todo, step, field_value, sample_result>>

adapter == <<kwargs, operation, params, model, processor, text, n_generate,
             requested, handler>>

\* the state of run_florence2_model's loop
loop == <<dataset, outputs, prompts, todo, step, field_value, sample_result>>

\* run_florence2_model is not running
NoLoop ==
    /\ dataset = <<>> /\ outputs = <<>> /\ prompts = <<>>
    /\ todo = <<>> /\ step = <<>> /\ field_value = <<>> /\ sample_result = <<>>

---------------------------------------------------------------------------
(* Bounds of the model *)

MaxCoord == 2
MaxDim == 2
MaxDets == 2
MaxFlat == 6
MaxPolygons == 2
MaxContours == 2
MaxKwargs == 2
MaxSamples == 3

---------------------------------------------------------------------------
(* Exact arithmetic for Python's "/" *)

Abs(a) == IF a < 0 THEN -a ELSE a

RECURSIVE GCD(_, _)
GCD(a, b) == IF b = 0 THEN a ELSE GCD(b, a % b)

\* a / b for b > 0, in lowest terms
Div(a, b) == LET g == GCD(Abs(a), b) IN <<a \div g, b \div g>>

Raise(e) == [kind |-> "raise", exc |-> e]
Min2(a, b) == IF a <= b THEN a ELSE b
NoResult == [kind |-> "pending"]

---------------------------------------------------------------------------
(* _convert_bbox, florence2.py 73-113 *)

Min4(a, b, c, d) ==
    LET m1 == IF a <= b THEN a ELSE b
        m2 == IF c <= d THEN c ELSE d
    IN  IF m1 <= m2 THEN m1 ELSE m2

Max4(a, b, c, d) ==
    LET m1 == IF a >= b THEN a ELSE b
        m2 == IF c >= d THEN c ELSE d
    IN  IF m1 >= m2 THEN m1 ELSE m2

\* RectBox with the corners put in order first
RectBoxReordered(b, width, height) ==
    [kind |-> "box",
     box  |-> << Div(Min2(b[1], b[3]), width),
                 Div(Min2(b[2], b[4]), height),
                 Div(Abs(b[3] - b[1]), width),
                 Div(Abs(b[4] - b[2]), height) >>]

\* the len(bbox) == 4 branch
RectBox(b, width, height) ==
    [kind |-> "box",
     box  |-> << Div(b[1], width),
                 Div(b[2], height),
                 Div(b[3] - b[1], width),
                 Div(b[4] - b[2], height) >>]

\* the else branch: the 8-way unpacking raises ValueError on any other length
QuadBox(b, width, height) ==
    IF Len(b) # 8 THEN Raise("ValueError")
    ELSE LET x_min == Min4(b[1], b[3], b[5], b[7])
             x_max == Max4(b[1], b[3], b[5], b[7])
             y_min == Min4(b[2], b[4], b[6], b[8])
             y_max == Max4(b[2], b[4], b[6], b[8])
         IN  [kind |-> "box",
              box  |-> << Div(x_min, width),
                          Div(y_min, height),
                          Div(x_max - x_min, width),
                          Div(y_max - y_min, height) >>]

_convert_bbox(b, width, height) ==
    IF Len(b) = 4 THEN RectBox(b, width, height)
    ELSE QuadBox(b, width, height)

---------------------------------------------------------------------------
(* Python values *)

None == <<>>
Str(s) == <<s>>
\* truth value of an optional string: None and "" are falsy
Truthy(v) == v # None /\ v[1] # ""

NoneResult == [kind |-> "None"]

---------------------------------------------------------------------------
(* Florence2._extract_detections, florence2.py 260-295 *)

label_key(t) == IF t = "<OPEN_VOCABULARY_DETECTION>" THEN "bboxes_labels" ELSE "labels"
bbox_key(t) == IF t = "<OCR_WITH_REGION>" THEN "quad_boxes" ELSE "bboxes"

\* DetectionLabel numbering the fallback from 0, as enumerate does
DetectionLabelZeroBased(label, i) ==
    IF Truthy(label) THEN label[1] ELSE "object_" \o ToString(i - 1)

\* label=label if label else f"object_{i+1}"; i is the 1-based position here,
\* that is enumerate's index plus one
DetectionLabel(label, i) == IF Truthy(label) THEN label[1] ELSE "object_" \o ToString(i)

\* one iteration of the loop over enumerate(zip(bboxes, labels))
Detection(b, label, i, img) ==
    [label |-> DetectionLabel(label, i),
     bounding_box |-> _convert_bbox(b, img.width, img.height)]

_extract_detections(answer, t, img) ==
    LET bboxes == answer[t][bbox_key(t)]
        labels == answer[t][label_key(t)]
        n      == Min2(Len(bboxes), Len(labels))    \* zip stops at the shorter
        dets   == [i \in 1 .. n |-> Detection(bboxes[i], labels[i], i, img)]
    IN  IF \E i \in 1 .. n : dets[i].bounding_box.kind = "raise"
        THEN Raise("ValueError")
        ELSE [kind |-> "Detections",
              detections |-> [i \in 1 .. n |->
                                [label |-> dets[i].label,
                                 bounding_box |-> dets[i].bounding_box.box]]]

---------------------------------------------------------------------------
(* Florence2._extract_polylines, florence2.py 297-363 *)

\* y_points dividing by the image width
y_points_by_width(contour, img) ==
    [i \in 1 .. (Len(contour) \div 2) |-> Div(contour[2 * i], img.width)]

\* PolylineLabel numbering the polylines from 0, as enumerate does
PolylineLabelZeroBased(k) == "object_" \o ToString(k - 1)

\* x_points / y_points: the even / odd (0-based) positions of the contour,
\* divided by the image width / height (lines 332-335)
XCount(contour) == (Len(contour) + 1) \div 2
YCount(contour) == Len(contour) \div 2
x_points(contour, img) == [i \in 1 .. XCount(contour) |-> Div(contour[2 * i - 1], img.width)]
y_points(contour, img) == [i \in 1 .. YCount(contour) |-> Div(contour[2 * i], img.height)]

\* ZigZag taking the vertical step first: (x[i-1], y[i]) then (x[i], y[i])
RECURSIVE ZigZagVerticalFirst(_, _, _, _)
ZigZagVerticalFirst(xs, ys, i, st) ==
    IF i > Len(xs) THEN st
    ELSE IF i > Len(ys) THEN Raise("IndexError")
    ELSE ZigZagVerticalFirst(xs, ys, i + 1,
                [kind |-> "points",
                 xy |-> st.xy \o << <<xs[i - 1], ys[i]>>, <<xs[i], ys[i]>> >>,
                 y  |-> ys[i]])

\* ZigZag appending the direct point (x[i], y[i]) only
RECURSIVE ZigZagDirect(_, _, _, _)
ZigZagDirect(xs, ys, i, st) ==
    IF i > Len(xs) THEN st
    ELSE IF i > Len(ys) THEN Raise("IndexError")
    ELSE ZigZagDirect(xs, ys, i + 1,
                [kind |-> "points",
                 xy |-> st.xy \o << <<xs[i], ys[i]>> >>,
                 y  |-> ys[i]])

\* the loop "for i in range(1, len(x_points))" (lines 343-347); i is 1-based
\* here, st = [kind, xy |-> xy_points, y |-> curr_y]; y_points[i] raises
\* IndexError when the contour has more x entries than y entries
RECURSIVE ZigZag(_, _, _, _)
ZigZag(xs, ys, i, st) ==
    IF i > Len(xs) THEN st
    ELSE IF i > Len(ys) THEN Raise("IndexError")
    ELSE ZigZag(xs, ys, i + 1,
                [kind |-> "points",
                 xy |-> st.xy \o << <<xs[i], st.y>>, <<xs[i], ys[i]>> >>,
                 y  |-> ys[i]])

\* ContourPoints repeating the first point to close the contour
ContourPointsClosedTwice(contour, img) ==
    LET xs == [i \in 1 .. XCount(contour) |-> Div(contour[2 * i - 1], img.width)]
        ys == [i \in 1 .. YCount(contour) |-> Div(contour[2 * i], img.height)]
    IN  IF Len(xs) = 0 \/ Len(ys) = 0 THEN Raise("IndexError")
        ELSE LET st == ZigZag(xs, ys, 2,
                              [kind |-> "points", xy |-> << <<xs[1], ys[1]>> >>, y |-> ys[1]])
             IN  IF st.kind = "raise" THEN st
                 ELSE [kind |-> "points",
                       xy |-> st.xy \o << <<xs[1], st.y>>, <<xs[1], ys[1]>> >>]

\* lines 332-351 for one contour; x_points[0] and y_points[0] raise IndexError
\* on an empty list
ContourPoints(contour, img) ==
    LET xs == x_points(contour, img)
        ys == y_points(contour, img)
    IN  IF Len(xs) = 0 \/ Len(ys) = 0 THEN Raise("IndexError")
        ELSE LET st == ZigZag(xs, ys, 2,
                              [kind |-> "points", xy |-> << <<xs[1], ys[1]>> >>, y |-> ys[1]])
             IN  IF st.kind = "raise" THEN st
                 ELSE [kind |-> "points", xy |-> st.xy \o << <<xs[1], st.y>> >>]

PolylineLabel(k) == "object_" \o ToString(k)

\* one iteration of the loop over enumerate(polygons) (lines 327-361);
\* k is the 1-based position, enumerate's index plus one
Polyline(polygon, k, img) ==
    LET cs == [j \in 1 .. Len(polygon) |-> ContourPoints(polygon[j], img)]
    IN  IF \E j \in 1 .. Len(polygon) : cs[j].kind = "raise"
        THEN Raise("IndexError")
        ELSE [kind   |-> "Polyline",
              points |-> [j \in 1 .. Len(polygon) |-> cs[j].xy],
              label  |-> PolylineLabel(k),
              filled |-> TRUE,
              closed |-> TRUE]

\* _extract_polylines without the early return: an empty list gives an empty
\* collection
_extract_polylines_empty(answer, t, img) ==
    LET polygons == answer[t]["polygons"]
        ps == [k \in 1 .. Len(polygons) |-> Polyline(polygons[k], k, img)]
    IN  IF \E k \in 1 .. Len(polygons) : ps[k].kind = "raise"
        THEN Raise("IndexError")
        ELSE [kind |-> "Polylines", polylines |-> ps]

_extract_polylines(answer, t, img) ==
    LET polygons == answer[t]["polygons"]
        ps == [k \in 1 .. Len(polygons) |-> Polyline(polygons[k], k, img)]
    IN  IF polygons = <<>> THEN NoneResult
        ELSE IF \E k \in 1 .. Len(polygons) : ps[k].kind = "raise"
        THEN Raise("IndexError")
        ELSE [kind |-> "Polylines", polylines |-> ps]

---------------------------------------------------------------------------
(* Inputs *)

Coords == 0 .. MaxCoord
Images == [width : 1 .. MaxDim, height : 1 .. MaxDim]

SeqsUpTo(S, n) == UNION { [1 .. k -> S] : k \in 0 .. n }

\* coordinate lists of length 4 and 8, and one invalid length
BoxLens == {2, 4, 8}
BBoxes == UNION { [1 .. n -> Coords] : n \in BoxLens }

\* the tasks whose answer goes through _extract_detections (lines 427, 466, 506)
DetectionTasks ==
    {"<OCR_WITH_REGION>", "<OD>", "<DENSE_REGION_CAPTION>", "<REGION_PROPOSAL>",
     "<OPEN_VOCABULARY_DETECTION>", "<CAPTION_TO_PHRASE_GROUNDING>"}

\* raw labels: None, the empty string, and a recognised text
RawLabels == {None, Str(""), Str("cat")}

\* sample coordinate lists of a detection answer: two boxes and a list of
\* invalid length, per kind of box
SampleRects == {<<0, 0, 1, 1>>, <<1, 0, 2, 1>>, <<0, 0>>}
SampleQuads == {<<0, 0, 1, 0, 1, 1, 0, 1>>, <<2, 1, 1, 1, 1, 0, 2, 0>>, <<0, 0>>}

\* what processor.post_process_generation returns for a detection-family task
\* (line 252): the key names depend on the task
DetectionAnswer(t, boxes, labels) ==
    IF t = "<OCR_WITH_REGION>" THEN t :> [quad_boxes |-> boxes, labels |-> labels]
    ELSE IF t = "<OPEN_VOCABULARY_DETECTION>"
    THEN t :> [bboxes |-> boxes, bboxes_labels |-> labels]
    ELSE t :> [bboxes |-> boxes, labels |-> labels]

DetectionAnswers(t) ==
    { DetectionAnswer(t, boxes, labels) :
        boxes \in SeqsUpTo(IF t = "<OCR_WITH_REGION>" THEN SampleQuads ELSE SampleRects,
                           MaxDets),
        labels \in SeqsUpTo(RawLabels, MaxDets) }

\* what it returns for the segmentation task
SegTask == "<REFERRING_EXPRESSION_SEGMENTATION>"
PolygonAnswer(polygons) == SegTask :> [polygons |-> polygons]

\* every contour up to MaxFlat entries (odd and empty ones included)
Contours == SeqsUpTo(Coords, MaxFlat)
\* sample contours for answers with several polygons and contours
SampleContours == {<<1, 1>>, <<0, 0, 1, 2>>}
SamplePolygons(n) == SeqsUpTo(SeqsUpTo(SampleContours, MaxContours), n)
\* contours on which the reconstruction raises
BadContours == {<<>>, <<0>>, <<0, 0, 1>>}

\* a single contour of any shape; several entries of sample contours; and
\* such entries followed by an entry holding a bad contour
PolygonAnswers ==
    { PolygonAnswer(<< <<c>> >>) : c \in Contours }
    \cup { PolygonAnswer(ps) : ps \in SamplePolygons(MaxPolygons) }
    \cup { PolygonAnswer(Append(ps, <<c>>)) :
             ps \in SamplePolygons(MaxPolygons - 1), c \in BadContours }

---------------------------------------------------------------------------
(* The geometry functions applied to every bounded input *)

GeomInit ==
    /\ image \in Images
    /\ result = NoResult
    /\ kwargs = <<>> /\ operation = "" /\ params = <<>> /\ model = "unset" /\ processor = "unset"
    /\ text = "" /\ n_generate = 0
    /\ requested = "" /\ handler = "none"
    /\ NoLoop
    /\ \/ /\ pc = "call_convert_bbox"
          /\ bbox \in BBoxes
          /\ task = "none"
          /\ parsed_answer = <<>>
       \/ /\ pc = "call_extract_detections"
          /\ bbox = <<>>
          /\ task \in DetectionTasks
          /\ parsed_answer \in DetectionAnswers(task)
       \/ /\ pc = "call_extract_polylines"
          /\ bbox = <<>>
          /\ task = SegTask
          /\ parsed_answer \in PolygonAnswers

ConvertBbox ==
    /\ pc = "call_convert_bbox"
    /\ result' = _convert_bbox(bbox, image.width, image.height)
    /\ pc' = "done_convert_bbox"
    /\ UNCHANGED <<bbox, image, task, parsed_answer, adapter, loop>>

ExtractDetections ==
    /\ pc = "call_extract_detections"
    /\ result' = _extract_detections(parsed_answer, task, image)
    /\ pc' = "done_extract_detections"
    /\ UNCHANGED <<bbox, image, task, parsed_answer, adapter, loop>>

ExtractPolylines ==
    /\ pc = "call_extract_polylines"
    /\ result' = _extract_polylines(parsed_answer, task, image)
    /\ pc' = "done_extract_polylines"
    /\ UNCHANGED <<bbox, image, task, parsed_answer, adapter, loop>>

GeomNext == ConvertBbox \/ ExtractDetections \/ ExtractPolylines

SpecGeom == GeomInit /\ [][GeomNext]_vars

---------------------------------------------------------------------------
(* FLORENCE2_OPERATIONS, florence2.py 23-62 *)

FLORENCE2_OPERATIONS == <<"caption", "ocr", "detection", "phrase_grounding", "segmentation">>
OperationNames == { FLORENCE2_OPERATIONS[i] : i \in 1 .. Len(FLORENCE2_OPERATIONS) }

caption_task_mapping ==
    Str("detailed") :> "<DETAILED_CAPTION>" @@
    Str("more_detailed") :> "<MORE_DETAILED_CAPTION>" @@
    Str("basic") :> "<CAPTION>" @@
    None :> "<CAPTION>"

detection_task_mapping ==
    Str("detection") :> "<OD>" @@
    Str("dense_region_caption") :> "<DENSE_REGION_CAPTION>" @@
    Str("region_proposal") :> "<REGION_PROPOSAL>" @@
    Str("open_vocabulary_detection") :> "<OPEN_VOCABULARY_DETECTION>" @@
    None :> "<OD>"

\* dict.get(key, default)
Get(d, key, default) == IF key \in DOMAIN d THEN d[key] ELSE default

\* a Python bool, apart from every optional string
Bool(b) == <<"bool", IF b THEN "True" ELSE "False">>
\* the truth value of None, a string or a bool
IsTrue(v) == IF Len(v) = 2 THEN v[2] = "True" ELSE Truthy(v)
\* str(v) of an optional string, as an f-string formats it
Format(v) == IF v = None THEN "None" ELSE v[1]

---------------------------------------------------------------------------
(* Florence2.__init__, florence2.py 151-202 *)

ValueError(about, names) ==
    [kind |-> "raise", exc |-> "ValueError", about |-> about, names |-> names]

\* Validate asking phrase_grounding for the caption_field only
ValidateFieldOnly(op, kw) ==
    IF op \notin OperationNames
    THEN ValueError("Invalid operation", FLORENCE2_OPERATIONS)
    ELSE IF op = "phrase_grounding" /\ "caption_field" \notin DOMAIN kw
    THEN ValueError("phrase_grounding", <<"caption_field", "caption">>)
    ELSE IF op = "segmentation"
            /\ "expression_field" \notin DOMAIN kw /\ "expression" \notin DOMAIN kw
    THEN ValueError("segmentation", <<"expression_field", "expression">>)
    ELSE NoResult

\* lines 170-181: the exception the validation raises, or NoResult when the
\* configuration passes
Validate(op, kw) ==
    IF op \notin OperationNames
    THEN ValueError("Invalid operation", FLORENCE2_OPERATIONS)
    ELSE IF op = "phrase_grounding"
            /\ "caption_field" \notin DOMAIN kw /\ "caption" \notin DOMAIN kw
    THEN ValueError("phrase_grounding", <<"caption_field", "caption">>)
    ELSE IF op = "segmentation"
            /\ "expression_field" \notin DOMAIN kw /\ "expression" \notin DOMAIN kw
    THEN ValueError("segmentation", <<"expression_field", "expression">>)
    ELSE NoResult

\* the keyword arguments a caller may pass, with sample values
ParamValues ==
    [detail_level |-> {Str("basic"), Str("detailed"), Str("more_detailed"),
                       Str("unsupported_value"), None},
     store_region_info |-> {Bool(TRUE), Bool(FALSE)},
     detection_type |-> {Str("detection"), Str("dense_region_caption"),
                         Str("region_proposal"), Str("open_vocabulary_detection"),
                         Str("unsupported_value"), None},
     text_prompt |-> {Str("a dog"), None},
     caption |-> {Str("a cat on a mat")},
     caption_field |-> {Str("my_captions")},
     expression |-> {Str("the cat")},
     expression_field |-> {Str("my_expressions")}]

ParamNames == DOMAIN ParamValues

Kwargs ==
    UNION { { kw \in [names -> UNION { ParamValues[n] : n \in names }] :
                \A n \in names : kw[n] \in ParamValues[n] } :
            names \in { ns \in SUBSET ParamNames : Cardinality(ns) <= MaxKwargs } }

\* operation names a caller may pass: the five and an unknown one
RequestedOperations == OperationNames \cup {"translate"}

Init ==
    /\ pc = "new"
    /\ kwargs = <<>> /\ operation = "" /\ params = <<>> /\ model = "unset" /\ processor = "unset"
    /\ bbox = <<>>
    /\ image = [width |-> 1, height |-> 1]
    /\ task = "none" /\ text = "" /\ n_generate = 0
    /\ parsed_answer = <<>>
    /\ result = NoResult
    /\ requested = "" /\ handler = "none"
    /\ NoLoop

\* lines 167-183: store the arguments and validate them
Construct ==
    /\ pc = "new"
    /\ \E op \in RequestedOperations, kw \in Kwargs :
           /\ operation' = op
           /\ requested' = op
           /\ kwargs' = kw
           /\ IF Validate(op, kw) = NoResult
              THEN /\ params' = kw
                   /\ pc' = "init_model"
                   /\ result' = result
              ELSE /\ params' = params
                   /\ pc' = "init_raised"
                   /\ result' = Validate(op, kw)
    /\ UNCHANGED <<model, processor, bbox, image, task, text, n_generate, parsed_answer,
                   handler, loop>>

\* lines 185-197: AutoModelForCausalLM.from_pretrained
LoadModel ==
    /\ pc = "init_model"
    /\ model' = "loaded"
    /\ pc' = "init_processor"
    /\ UNCHANGED <<kwargs, operation, params, processor, bbox, image, task, text, n_generate,
                   parsed_answer, result, requested, handler, loop>>

\* lines 199-202: AutoProcessor.from_pretrained
LoadProcessor ==
    /\ pc = "init_processor"
    /\ processor' = "loaded"
    /\ pc' = "ready"
    /\ UNCHANGED <<kwargs, operation, params, model, bbox, image, task, text, n_generate,
                   parsed_answer, result, requested, handler, loop>>

---------------------------------------------------------------------------
(* Florence2._generate_and_parse, florence2.py 209-258 *)

\* lines 229-231: the text handed to the processor
PromptText(t, text_input) == IF text_input # None THEN text_input[1] ELSE t

\* what the model and processor give back (lines 240-256), keyed by the task:
\* a string for the caption and plain OCR tasks
TextAnswers(t) == { t :> s : s \in {"a cat", ""} }

\* parallel lists for the detection-family tasks
AdapterBoxes(t) ==
    IF t = "<OCR_WITH_REGION>"
    THEN << <<0, 0, 1, 0, 1, 1, 0, 1>>, <<1, 1, 0, 1, 0, 0, 1, 0>> >>
    ELSE << <<0, 0, 1, 1>>, <<1, 0, 1, 1>> >>
AdapterDetectionAnswers(t) ==
    { DetectionAnswer(t, <<>>, <<>>),
      DetectionAnswer(t, SubSeq(AdapterBoxes(t), 1, 1), <<Str("cat")>>),
      DetectionAnswer(t, AdapterBoxes(t), <<Str(""), None>>),
      DetectionAnswer(t, << <<0, 0>> >>, <<Str("cat")>>) }

\* polygon lists for the segmentation task
AdapterPolygonAnswers ==
    { PolygonAnswer(<<>>),
      PolygonAnswer(<< <<>> >>),
      PolygonAnswer(<< << <<0, 0, 1, 0, 1, 1>> >>, << <<1, 1>>, <<0, 1, 1, 0>> >> >>),
      PolygonAnswer(<< << <<0>> >> >>) }

---------------------------------------------------------------------------
(* Florence2._predict and the five handlers, florence2.py 365-612 *)

\* prediction_methods with the methods of caption and ocr exchanged
prediction_methods_swapped ==
    [caption |-> "_predict_ocr",
     ocr |-> "_predict_caption",
     detection |-> "_predict_detection",
     phrase_grounding |-> "_predict_phrase_grounding",
     segmentation |-> "_predict_segmentation"]

\* lines 568-577: prediction_methods.get(self.operation)
prediction_methods ==
    [caption |-> "_predict_caption",
     ocr |-> "_predict_ocr",
     detection |-> "_predict_detection",
     phrase_grounding |-> "_predict_phrase_grounding",
     segmentation |-> "_predict_segmentation"]
predict_method(op) == Get(prediction_methods, op, "None")

\* caption_task with "detailed" as the default of an absent detail_level
caption_task_detailed(p) ==
    Get(caption_task_mapping, Get(p, "detail_level", Str("detailed")),
        caption_task_mapping[None])

\* lines 384-390
caption_task(p) ==
    Get(caption_task_mapping, Get(p, "detail_level", Str("basic")),
        caption_task_mapping[None])

\* lines 420-430
ocr_task(p) ==
    IF IsTrue(Get(p, "store_region_info", Bool(FALSE)))
    THEN "<OCR_WITH_REGION>" ELSE "<OCR>"

\* lines 455-460
detection_task(p) ==
    Get(detection_task_mapping, Get(p, "detection_type", None),
        detection_task_mapping[None])

\* grounding_text reading the field parameter before the literal caption
grounding_text_field_first(p) ==
    LET caption == IF "caption_field" \in DOMAIN p THEN p["caption_field"]
                   ELSE p["caption"]
    IN  "<CAPTION_TO_PHRASE_GROUNDING>" \o "\n" \o Format(caption)

\* lines 492-500
grounding_text(p) ==
    LET caption == IF "caption" \in DOMAIN p THEN p["caption"] ELSE p["caption_field"]
    IN  "<CAPTION_TO_PHRASE_GROUNDING>" \o "\n" \o Format(caption)

\* lines 531-539
segmentation_text(p) ==
    LET expression == IF "expression" \in DOMAIN p THEN p["expression"]
                      ELSE p["expression_field"]
    IN  SegTask \o "\nExpression: " \o Format(expression)

\* a predict call may start once the adapter is built, whatever the last
\* call returned or raised
Idle == pc \in {"ready", "returned", "raised"}
After(r) == IF r.kind = "raise" THEN "raised" ELSE "returned"

\* one call of _generate_and_parse with the answer ans, then the value r,
\* inside the handler that line 584 calls
Generated(img, t, text_input, ans, r) ==
    /\ handler' = predict_method(operation)
    /\ image' = img
    /\ task' = t
    /\ text' = PromptText(t, text_input)
    /\ n_generate' = 1
    /\ parsed_answer' = ans
    /\ result' = r
    /\ pc' = After(r)
    /\ UNCHANGED <<kwargs, operation, params, model, processor, bbox, requested>>

PredictCaption ==
    /\ Idle
    /\ predict_method(operation) = "_predict_caption"
    /\ \E img \in Images :
         LET t == caption_task(params)
         IN  \E ans \in TextAnswers(t) :
                 Generated(img, t, None, ans, [kind |-> "str", value |-> ans[t]])
    /\ UNCHANGED loop

PredictOcr ==
    /\ Idle
    /\ predict_method(operation) = "_predict_ocr"
    /\ \E img \in Images :
         LET t == ocr_task(params)
         IN  IF t = "<OCR_WITH_REGION>"
             THEN \E ans \in AdapterDetectionAnswers(t) :
                      Generated(img, t, None, ans, _extract_detections(ans, t, img))
             ELSE \E ans \in TextAnswers(t) :
                      Generated(img, t, None, ans, [kind |-> "str", value |-> ans[t]])
    /\ UNCHANGED loop

PredictDetection ==
    /\ Idle
    /\ predict_method(operation) = "_predict_detection"
    /\ \E img \in Images :
         LET t == detection_task(params)
         IN  \E ans \in AdapterDetectionAnswers(t) :
                 Generated(img, t, Get(params, "text_prompt", None), ans,
                           _extract_detections(ans, t, img))
    /\ UNCHANGED loop

\* lines 468-506
_predict_phrase_grounding(img) ==
    LET t == "<CAPTION_TO_PHRASE_GROUNDING>"
    IN  \E ans \in AdapterDetectionAnswers(t) :
            Generated(img, t, Str(grounding_text(params)), ans,
                      _extract_detections(ans, t, img))

PredictPhraseGrounding ==
    /\ Idle
    /\ predict_method(operation) = "_predict_phrase_grounding"
    /\ \E img \in Images : _predict_phrase_grounding(img)
    /\ UNCHANGED loop

\* lines 508-545
_predict_segmentation(img) ==
    \E ans \in AdapterPolygonAnswers :
        Generated(img, SegTask, Str(segmentation_text(params)), ans,
                  _extract_polylines(ans, SegTask, img))

PredictSegmentation ==
    /\ Idle
    /\ predict_method(operation) = "_predict_segmentation"
    /\ \E img \in Images : _predict_segmentation(img)
    /\ UNCHANGED loop

\* lines 579-581: no method for self.operation, so _predict raises before
\* any handler or model call.  __init__ admits no such operation, so the
\* branch is taken only after self.operation was rebound.
PredictUnknown ==
    /\ Idle
    /\ predict_method(operation) = "None"
    /\ handler' = "none"
    /\ n_generate' = 0
    /\ result' = ValueError("Unknown operation", <<operation>>)
    /\ pc' = "raised"
    /\ UNCHANGED <<kwargs, operation, params, model, processor, bbox, image, task, text,
                   parsed_answer, requested, loop>>

Next ==
    \/ Construct
    \/ LoadModel
    \/ LoadProcessor
    \/ PredictCaption
    \/ PredictOcr
    \/ PredictDetection
    \/ PredictPhraseGrounding
    \/ PredictSegmentation

Spec == Init /\ [][Next]_vars

---------------------------------------------------------------------------
(* Dispatch at prediction time, florence2.py 547-584, on an adapter whose  *)
(* operation attribute a caller may have rebound since construction        *)

\* the names given to self.operation after construction: the ones
\* prediction_methods does not know
ReboundOperations == RequestedOperations \ OperationNames

\* line 167 makes self.operation a plain attribute; a caller rebinds it on
\* the built adapter, as run_florence2_model rebinds self.params["caption"]
AssignOperation ==
    /\ Idle
    /\ \E op \in ReboundOperations : operation' = op
    /\ UNCHANGED <<pc, kwargs, params, model, processor, bbox, image, task, text,
                   n_generate, parsed_answer, result, requested, handler, loop>>

DispatchNext ==
    \/ Next
    \/ AssignOperation
    \/ PredictUnknown

SpecDispatch == Init /\ [][DispatchNext]_vars

---------------------------------------------------------------------------
(* run_florence2_model, florence2.py 614-691: the two per-sample loops     *)

\* the operations with a per-sample loop (lines 646, 665)
LoopOperations == {"phrase_grounding", "segmentation"}
\* the keyword naming the field (lines 650, 669); the parameter the loop
\* stores the field's value under (lines 659, 678) is literal_param
field_param(op) == IF op = "phrase_grounding" THEN "caption_field" ELSE "expression_field"
\* literal_param with the two parameter names exchanged
literal_param_swapped(op) == IF op = "phrase_grounding" THEN "expression" ELSE "caption"
literal_param(op) == IF op = "phrase_grounding" THEN "caption" ELSE "expression"

\* what sample[field] gives: a string, None for a sample without a value,
\* or an exception
Unreadable == <<"raise", "KeyError">>
FieldValues == {Str("a dog"), Str("two cats"), None, Unreadable}
Datasets == UNION { [1..n -> FieldValues] : n \in 0..MaxSamples }

\* the output field of a sample the loop has not written
NoOutput == [kind |-> "unset"]
\* Image.open(sample.filepath) (lines 661, 680)
SampleImages == { [width |-> 1, height |-> 1] }

\* the state in which a loop body starts on the dataset d: the adapter has
\* been built with the field keyword alone (lines 647-651, 666-670) and
\* each loop in queues holds the samples it iterates
LoopStart(d, queues) ==
    /\ operation \in LoopOperations
    /\ requested = operation
    /\ kwargs \in { field_param(operation) :> v : v \in ParamValues[field_param(operation)] }
    /\ Validate(operation, kwargs) = NoResult
    /\ params = kwargs
    /\ model = "loaded" /\ processor = "loaded"
    /\ pc = "ready"
    /\ bbox = <<>>
    /\ image = [width |-> 1, height |-> 1]
    /\ task = "none" /\ text = "" /\ n_generate = 0 /\ handler = "none"
    /\ parsed_answer = <<>>
    /\ result = NoResult
    /\ dataset = d
    /\ outputs = [i \in DOMAIN d |-> NoOutput]
    /\ prompts = [i \in DOMAIN d |-> ""]
    /\ todo = queues
    /\ step = [w \in DOMAIN queues |-> "read"]
    /\ field_value = [w \in DOMAIN queues |-> None]
    /\ sample_result = [w \in DOMAIN queues |-> NoResult]

\* dataset.iter_samples(): every sample, in order
RunInit == \E d \in Datasets : LoopStart(d, << [i \in DOMAIN d |-> i] >>)

\* the sample the loop w is at
Current(w) == Head(todo[w])

\* ReadField taking the value from the first sample of the dataset
ReadFieldOfFirst(w) ==
    /\ step[w] = "read"
    /\ todo[w] # <<>>
    /\ IF dataset[1] = Unreadable
       THEN /\ step' = [step EXCEPT ![w] = "raised"]
            /\ UNCHANGED field_value
       ELSE /\ field_value' = [field_value EXCEPT ![w] = dataset[1]]
            /\ step' = [step EXCEPT ![w] = "store"]
    /\ UNCHANGED <<pc, kwargs, operation, params, model, processor, bbox, image, task,
                   text, n_generate, parsed_answer, result, requested, handler,
                   dataset, outputs, prompts, todo, sample_result>>

\* lines 657, 676: caption = sample[kwargs["caption_field"]]
ReadField(w) ==
    /\ step[w] = "read"
    /\ todo[w] # <<>>
    /\ IF dataset[Current(w)] = Unreadable
       THEN /\ step' = [step EXCEPT ![w] = "raised"]
            /\ UNCHANGED field_value
       ELSE /\ field_value' = [field_value EXCEPT ![w] = dataset[Current(w)]]
            /\ step' = [step EXCEPT ![w] = "store"]
    /\ UNCHANGED <<pc, kwargs, operation, params, model, processor, bbox, image, task,
                   text, n_generate, parsed_answer, result, requested, handler,
                   dataset, outputs, prompts, todo, sample_result>>

\* lines 659, 678: model.params["caption"] = caption
StoreParam(w) ==
    /\ step[w] = "store"
    /\ params' = (literal_param(operation) :> field_value[w]) @@ params
    /\ step' = [step EXCEPT ![w] = "infer"]
    /\ UNCHANGED <<pc, kwargs, operation, model, processor, bbox, image, task,
                   text, n_generate, parsed_answer, result, requested, handler,
                   dataset, outputs, prompts, todo, field_value, sample_result>>

\* lines 233-246 raising inside the handler: the prompt has been built and
\* handed over, no answer comes back
InferenceRaises(img) ==
    LET t == IF operation = "phrase_grounding"
             THEN "<CAPTION_TO_PHRASE_GROUNDING>" ELSE SegTask
        text_input == IF operation = "phrase_grounding"
                      THEN Str(grounding_text(params)) ELSE Str(segmentation_text(params))
    IN  /\ handler' = predict_method(operation)
        /\ image' = img
        /\ task' = t
        /\ text' = PromptText(t, text_input)
        /\ n_generate' = 1
        /\ result' = Raise("RuntimeError")
        /\ pc' = "raised"
        /\ UNCHANGED <<kwargs, operation, params, model, processor, bbox, requested,
                       parsed_answer>>

\* Infer going on to the next sample when predict raises
InferSwallowing(w) ==
    /\ step[w] = "infer"
    /\ \E img \in SampleImages :
        \/ /\ predict_method(operation) = "_predict_phrase_grounding"
           /\ _predict_phrase_grounding(img)
        \/ /\ predict_method(operation) = "_predict_segmentation"
           /\ _predict_segmentation(img)
        \/ InferenceRaises(img)
    /\ prompts' = [prompts EXCEPT ![Current(w)] = text']
    /\ IF result'.kind = "raise"
       THEN /\ step' = [step EXCEPT ![w] = "read"]
            /\ todo' = [todo EXCEPT ![w] = Tail(todo[w])]
            /\ UNCHANGED sample_result
       ELSE /\ step' = [step EXCEPT ![w] = "write"]
            /\ sample_result' = [sample_result EXCEPT ![w] = result']
            /\ UNCHANGED todo
    /\ UNCHANGED <<dataset, outputs, field_value>>

\* lines 661, 680: result = model.predict(...)
Infer(w) ==
    /\ step[w] = "infer"
    /\ \E img \in SampleImages :
        \/ /\ predict_method(operation) = "_predict_phrase_grounding"
           /\ _predict_phrase_grounding(img)
        \/ /\ predict_method(operation) = "_predict_segmentation"
           /\ _predict_segmentation(img)
        \/ InferenceRaises(img)
    /\ prompts' = [prompts EXCEPT ![Current(w)] = text']
    /\ IF result'.kind = "raise"
       THEN /\ step' = [step EXCEPT ![w] = "raised"]
            /\ UNCHANGED sample_result
       ELSE /\ step' = [step EXCEPT ![w] = "write"]
            /\ sample_result' = [sample_result EXCEPT ![w] = result']
    /\ UNCHANGED <<dataset, outputs, todo, field_value>>

\* lines 663, 682: sample[output_field] = result, then the next sample
WriteOutput(w) ==
    /\ step[w] = "write"
    /\ outputs' = [outputs EXCEPT ![Current(w)] = sample_result[w]]
    /\ todo' = [todo EXCEPT ![w] = Tail(todo[w])]
    /\ step' = [step EXCEPT ![w] = "read"]
    /\ UNCHANGED <<pc, kwargs, operation, params, model, processor, bbox, image, task,
                   text, n_generate, parsed_answer, result, requested, handler,
                   dataset, prompts, field_value, sample_result>>

\* lines 655, 674: the iterator is exhausted
Finish(w) ==
    /\ step[w] = "read"
    /\ todo[w] = <<>>
    /\ step' = [step EXCEPT ![w] = "done"]
    /\ UNCHANGED <<pc, kwargs, operation, params, model, processor, bbox, image, task,
                   text, n_generate, parsed_answer, result, requested, handler,
                   dataset, outputs, prompts, todo, field_value, sample_result>>

RunNext ==
    \/ \E w \in DOMAIN todo : ReadField(w)
    \/ \E w \in DOMAIN todo : StoreParam(w)
    \/ \E w \in DOMAIN todo : Infer(w)
    \/ \E w \in DOMAIN todo : WriteOutput(w)
    \/ \E w \in DOMAIN todo : Finish(w)

SpecRun == RunInit /\ [][RunNext]_vars

---------------------------------------------------------------------------
(* Two callers running the loop body of lines 657-663 on one adapter, each *)
(* for its own sample, their steps interleaved                             *)

Invocations == {1, 2}

\* the adapter is built once; invocation w has the sample w to process
RaceInit ==
    \E d \in [Invocations -> FieldValues] :
        LoopStart(d, [w \in Invocations |-> <<w>>])

SpecRace == RaceInit /\ [][RunNext]_vars

---------------------------------------------------------------------------
(* Vocabulary of the properties *)

\* q denotes the number a / b
IsQuot(q, a, b) == q[2] > 0 /\ q[1] * b = a * q[2]
\* q lies in [0, 1]
InUnit(q) == q[2] > 0 /\ q[1] >= 0 /\ q[1] <= q[2]

SetMin(S) == CHOOSE m \in S : \A x \in S : m <= x
SetMax(S) == CHOOSE m \in S : \A x \in S : m >= x

\* the box is (x1/W, y1/H, (x2-x1)/W, (y2-y1)/H)
IsNormalized(box, x1, y1, x2, y2) ==
    /\ Len(box) = 4
    /\ IsQuot(box[1], x1, image.width)
    /\ IsQuot(box[2], y1, image.height)
    /\ IsQuot(box[3], x2 - x1, image.width)
    /\ IsQuot(box[4], y2 - y1, image.height)

QuadXs(b) == {b[1], b[3], b[5], b[7]}
QuadYs(b) == {b[2], b[4], b[6], b[8]}

\* C1: _convert_bbox maps a list (x1,y1,x2,y2) to (x1/W, y1/H, (x2-x1)/W,
\* (y2-y1)/H) without clamping or reordering, and a list of 8 to the same
\* formula on the axis-aligned bounding rectangle of its four points.
C1_ConvertBbox ==
    pc = "done_convert_bbox" =>
        /\ Len(bbox) = 4 =>
               /\ result.kind = "box"
               /\ IsNormalized(result.box, bbox[1], bbox[2], bbox[3], bbox[4])
        /\ Len(bbox) = 8 =>
               /\ result.kind = "box"
               /\ IsNormalized(result.box,
                               SetMin(QuadXs(bbox)), SetMin(QuadYs(bbox)),
                               SetMax(QuadXs(bbox)), SetMax(QuadYs(bbox)))

\* a rectangle with x2 < x1 came out with a negative width
C1_Witness ==
    /\ pc = "done_convert_bbox"
    /\ Len(bbox) = 4
    /\ bbox[3] < bbox[1]
    /\ result.kind = "box"
    /\ result.box[3][1] < 0

\* a quadrilateral whose first corner is not its top-left one was normalized
C1_WitnessQuad ==
    /\ pc = "done_convert_bbox"
    /\ Len(bbox) = 8
    /\ bbox[1] > bbox[5]
    /\ bbox[2] > bbox[6]
    /\ result.kind = "box"
    /\ result.box[3][1] > 0

---------------------------------------------------------------------------
(* Contours *)

\* the polygon list of the answer under extraction
Polygons == parsed_answer[task]["polygons"]

NPairs(c) == Len(c) \div 2
RawX(c, i) == c[2 * i - 1]
RawY(c, i) == c[2 * i]

\* an even-length flat list of N >= 1 coordinate pairs
WellFormedContour(c) == Len(c) >= 2 /\ Len(c) % 2 = 0
AllWellFormed ==
    \A k \in 1 .. Len(Polygons) : \A j \in 1 .. Len(Polygons[k]) :
        WellFormedContour(Polygons[k][j])

\* p is the point (X/W, Y/H)
IsPoint(p, X, Y) == IsQuot(p[1], X, image.width) /\ IsQuot(p[2], Y, image.height)

\* (x1,y1); then (xi,y(i-1)), (xi,yi) for i = 2..N; then (x1,yN)
IsStaircase(pts, c) ==
    LET N == NPairs(c)
    IN  /\ Len(pts) = 2 * N
        /\ IsPoint(pts[1], RawX(c, 1), RawY(c, 1))
        /\ \A i \in 2 .. N :
               /\ IsPoint(pts[2 * (i - 1)], RawX(c, i), RawY(c, i - 1))
               /\ IsPoint(pts[2 * (i - 1) + 1], RawX(c, i), RawY(c, i))
        /\ IsPoint(pts[2 * N], RawX(c, 1), RawY(c, N))

\* the direct point list (xi, yi)
IsDirect(pts, c) ==
    /\ Len(pts) = NPairs(c)
    /\ \A i \in 1 .. NPairs(c) : IsPoint(pts[i], RawX(c, i), RawY(c, i))

\* the answer holds contours, all well formed, and has been extracted
Reconstructed ==
    pc = "done_extract_polylines" /\ Polygons # <<>> /\ AllWellFormed

\* the places <<k, j>> of the contours of the answer, the contour at a place
\* and the points made of it
ContourPlaces ==
    UNION { { <<k, j>> : j \in 1 .. Len(Polygons[k]) } : k \in 1 .. Len(Polygons) }
ContourAt(kj) == Polygons[kj[1]][kj[2]]
PointsAt(kj) == result.polylines[kj[1]].points[kj[2]]

\* C2: a contour of N >= 1 pairs becomes (x[0],y[0]), then for i = 1..N-1
\* the points (x[i],y[i-1]) and (x[i],y[i]), then the closing point
\* (x[0],y[N-1]), over the normalized coordinates; that is not the direct
\* point list.
C2_Staircase ==
    Reconstructed =>
        /\ result.kind = "Polylines"
        /\ \A kj \in ContourPlaces :
               /\ IsStaircase(PointsAt(kj), ContourAt(kj))
               /\ ~IsDirect(PointsAt(kj), ContourAt(kj))

\* a contour of three pairs was reconstructed and its second point, the
\* horizontal step, is neither the first nor the second raw point
C2_Witness ==
    /\ pc = "done_extract_polylines"
    /\ result.kind = "Polylines"
    /\ Len(Polygons) = 1 /\ Len(Polygons[1]) = 1 /\ NPairs(Polygons[1][1]) = 3
    /\ LET pts == result.polylines[1].points[1]
       IN  pts[2] # pts[1] /\ pts[2] # pts[3] /\ pts[4] # pts[5]

\* C3: a contour of N coordinate pairs is reconstructed into exactly
\* 2*(N-1) + 2 points.
C3_ContourLength ==
    Reconstructed =>
        /\ result.kind = "Polylines"
        /\ \A kj \in ContourPlaces :
               Len(PointsAt(kj)) = 2 * (NPairs(ContourAt(kj)) - 1) + 2

\* contours of one pair and of two pairs were reconstructed in one answer
C3_Witness ==
    /\ pc = "done_extract_polylines"
    /\ result.kind = "Polylines"
    /\ \E kj \in ContourPlaces : NPairs(ContourAt(kj)) = 1 /\ Len(PointsAt(kj)) = 2
    /\ \E kj \in ContourPlaces : NPairs(ContourAt(kj)) = 2 /\ Len(PointsAt(kj)) = 4

\* C4 as stated: a contour of 3 coordinate pairs (a flat list of 6 numbers)
\* is reconstructed into exactly 7 points.
C4_SevenPoints ==
    Reconstructed =>
        /\ result.kind = "Polylines"
        /\ \A kj \in ContourPlaces : Len(ContourAt(kj)) = 6 => Len(PointsAt(kj)) = 7

\* C4, amended: a contour of 3 coordinate pairs (a flat list of 6 numbers)
\* is reconstructed into exactly 6 points.
C4_SixPoints ==
    Reconstructed =>
        /\ result.kind = "Polylines"
        /\ \A kj \in ContourPlaces : Len(ContourAt(kj)) = 6 => Len(PointsAt(kj)) = 6

\* a contour of three pairs was reconstructed
C4_Witness ==
    /\ pc = "done_extract_polylines"
    /\ result.kind = "Polylines"
    /\ Len(Polygons) = 1 /\ Len(Polygons[1]) = 1 /\ Len(Polygons[1][1]) = 6
    /\ Len(result.polylines[1].points[1]) = 6

---------------------------------------------------------------------------
(* Detections *)

\* the parallel lists of the answer under extraction
AnswerBoxes == parsed_answer[task][IF task = "<OCR_WITH_REGION>" THEN "quad_boxes" ELSE "bboxes"]
AnswerLabels ==
    parsed_answer[task][IF task = "<OPEN_VOCABULARY_DETECTION>" THEN "bboxes_labels"
                        ELSE "labels"]
\* the number of (coordinate-list, label) pairs
NPairsOfAnswer == Min2(Len(AnswerBoxes), Len(AnswerLabels))

\* box is the normalization of the coordinate list b (of length 4 or 8)
IsNormalizationOf(box, b) ==
    IF Len(b) = 4 THEN IsNormalized(box, b[1], b[2], b[3], b[4])
    ELSE IsNormalized(box, SetMin(QuadXs(b)), SetMin(QuadYs(b)),
                           SetMax(QuadXs(b)), SetMax(QuadYs(b)))

\* C5: _extract_detections pairs the coordinate lists and the labels by
\* position: detection i has the normalization of list i as its box and
\* label i as its label, or "object_" + (position counted from 1) when that
\* label is "" or None; no output label is empty, and there are as many
\* detections as pairs.
C5_Detections ==
    (/\ pc = "done_extract_detections"
     /\ \A i \in 1 .. NPairsOfAnswer : Len(AnswerBoxes[i]) \in {4, 8}) =>
        /\ result.kind = "Detections"
        /\ Len(result.detections) = NPairsOfAnswer
        /\ \A i \in 1 .. NPairsOfAnswer :
               LET d == result.detections[i]
                   raw == AnswerLabels[i]
               IN  /\ IsNormalizationOf(d.bounding_box, AnswerBoxes[i])
                   /\ d.label # ""
                   /\ raw \in {None, Str("")} => d.label = "object_" \o ToString(i)
                   /\ raw \notin {None, Str("")} => d.label = raw[1]

\* two different boxes were extracted, the first with its own label and the
\* second, whose label is None, as "object_2"
C5_Witness ==
    /\ pc = "done_extract_detections"
    /\ result.kind = "Detections"
    /\ Len(result.detections) = 2
    /\ AnswerLabels[1] = Str("cat") /\ AnswerLabels[2] = None
    /\ AnswerBoxes[1] # AnswerBoxes[2]
    /\ result.detections[1].label = "cat"
    /\ result.detections[2].label = "object_2"
    /\ result.detections[1].bounding_box # result.detections[2].bounding_box

---------------------------------------------------------------------------
(* Polylines *)

\* C6: _extract_polylines returns None exactly when the polygon list is
\* empty; a non-empty list gives a Polylines collection, also when its
\* entries carry no contours.
C6_Absence ==
    pc = "done_extract_polylines" =>
        /\ result = NoneResult <=> Polygons = <<>>
        /\ Polygons # <<>> /\ AllWellFormed => result.kind = "Polylines"

\* a list of entries without contours gave a collection of polylines
\* without points
C6_Witness ==
    /\ pc = "done_extract_polylines"
    /\ Len(Polygons) = 2
    /\ Polygons[1] = <<>> /\ Polygons[2] = <<>>
    /\ result.kind = "Polylines"
    /\ Len(result.polylines) = 2
    /\ result.polylines[1].points = <<>>

\* C7: a non-empty polygon list gives one polyline per entry, in order;
\* polyline k carries the contours of entry k in order, is labelled
\* "object_" + k (k counted from 1 over the entries) and is filled and
\* closed.
C7_Polylines ==
    pc = "done_extract_polylines" /\ Polygons # <<>> /\ AllWellFormed =>
        /\ result.kind = "Polylines"
        /\ Len(result.polylines) = Len(Polygons)
        /\ \A k \in 1 .. Len(Polygons) :
               LET pl == result.polylines[k]
               IN  /\ Len(pl.points) = Len(Polygons[k])
                   /\ \A j \in 1 .. Len(Polygons[k]) :
                          IsStaircase(pl.points[j], Polygons[k][j])
                   /\ pl.label = "object_" \o ToString(k)
                   /\ pl.filled = TRUE
                   /\ pl.closed = TRUE

\* two entries, the second with two different contours, gave "object_1" and
\* "object_2"
C7_Witness ==
    /\ pc = "done_extract_polylines"
    /\ result.kind = "Polylines"
    /\ Len(Polygons) = 2
    /\ Len(Polygons[1]) = 1 /\ Len(Polygons[2]) = 2
    /\ Polygons[2][1] # Polygons[2][2]
    /\ result.polylines[2].label = "object_2"
    /\ Len(result.polylines[2].points) = 2

---------------------------------------------------------------------------
(* Range of the normalized coordinates *)

InRange(v, hi) == 0 <= v /\ v <= hi

\* raw x in [0,W], raw y in [0,H], and x1 <= x2, y1 <= y2 for a list of 4
WellFormedBox(b) ==
    /\ Len(b) \in {4, 8}
    /\ \A i \in 1 .. Len(b) :
           InRange(b[i], IF i % 2 = 1 THEN image.width ELSE image.height)
    /\ Len(b) = 4 => b[1] <= b[3] /\ b[2] <= b[4]

WellFormedInRange(c) ==
    /\ WellFormedContour(c)
    /\ \A i \in 1 .. Len(c) :
           InRange(c[i], IF i % 2 = 1 THEN image.width ELSE image.height)

BoxInUnit(box) == \A i \in 1 .. 4 : InUnit(box[i])

\* C8: for well-formed inputs every output number lies in [0,1]: the four
\* components of a normalized box (lists of 4 and of 8) and both coordinates
\* of every polyline point, the intermediate and closing points included.
C8_UnitRange ==
    /\ pc = "done_convert_bbox" /\ WellFormedBox(bbox) =>
           result.kind = "box" /\ BoxInUnit(result.box)
    /\ (/\ pc = "done_extract_detections"
        /\ \A i \in 1 .. NPairsOfAnswer : WellFormedBox(AnswerBoxes[i])) =>
           /\ result.kind = "Detections"
           /\ \A i \in 1 .. NPairsOfAnswer : BoxInUnit(result.detections[i].bounding_box)
    /\ (/\ pc = "done_extract_polylines"
        /\ Polygons # <<>>
        /\ \A k \in 1 .. Len(Polygons) : \A j \in 1 .. Len(Polygons[k]) :
               WellFormedInRange(Polygons[k][j])) =>
           /\ result.kind = "Polylines"
           /\ \A k \in 1 .. Len(Polygons) : \A j \in 1 .. Len(Polygons[k]) :
                  \A m \in 1 .. Len(result.polylines[k].points[j]) :
                      /\ InUnit(result.polylines[k].points[j][m][1])
                      /\ InUnit(result.polylines[k].points[j][m][2])

\* a well-formed contour touching the right and the bottom edge of an image
\* that is higher than wide was reconstructed
C8_Witness ==
    /\ pc = "done_extract_polylines"
    /\ result.kind = "Polylines"
    /\ image.height > image.width
    /\ Len(Polygons) = 1 /\ Len(Polygons[1]) = 1
    /\ WellFormedInRange(Polygons[1][1])
    /\ NPairs(Polygons[1][1]) >= 2
    /\ \E i \in 1 .. NPairs(Polygons[1][1]) : RawX(Polygons[1][1], i) = image.width
    /\ \E i \in 1 .. NPairs(Polygons[1][1]) : RawY(Polygons[1][1], i) = image.height
    /\ \E m \in 1 .. Len(result.polylines[1].points[1]) :
           result.polylines[1].points[1][m] = << <<1, 1>>, <<1, 1>> >>

\* a well-formed quadrilateral spanning the whole image was normalized
C8_WitnessQuad ==
    /\ pc = "done_convert_bbox"
    /\ Len(bbox) = 8
    /\ WellFormedBox(bbox)
    /\ result.kind = "box"
    /\ result.box = << <<0, 1>>, <<0, 1>>, <<1, 1>>, <<1, 1>> >>

---------------------------------------------------------------------------
(* Construction *)

TheFiveOperations == {"caption", "ocr", "detection", "phrase_grounding", "segmentation"}
Has(name) == name \in DOMAIN kwargs
\* __init__ has been called
Constructing == pc # "new"

UnknownOperation == operation \notin TheFiveOperations
GroundingWithoutCaption ==
    operation = "phrase_grounding" /\ ~Has("caption") /\ ~Has("caption_field")
SegmentationWithoutExpression ==
    operation = "segmentation" /\ ~Has("expression") /\ ~Has("expression_field")

\* the elements of a sequence of names
Named(names) == { names[i] : i \in 1 .. Len(names) }

\* C9: construction with an operation outside the five, with
\* phrase_grounding and neither caption nor caption_field, or with
\* segmentation and neither expression nor expression_field raises a
\* configuration error (naming the five operations, respectively the two
\* parameters) with neither the model nor the processor loaded; every other
\* configuration passes validation and goes on to load the model.
C9_Validation ==
    Constructing =>
        /\ UnknownOperation =>
               /\ pc = "init_raised"
               /\ result.exc = "ValueError"
               /\ Named(result.names) = TheFiveOperations
        /\ GroundingWithoutCaption =>
               /\ pc = "init_raised"
               /\ result.exc = "ValueError"
               /\ Named(result.names) = {"caption", "caption_field"}
        /\ SegmentationWithoutExpression =>
               /\ pc = "init_raised"
               /\ result.exc = "ValueError"
               /\ Named(result.names) = {"expression", "expression_field"}
        /\ pc = "init_raised" => model = "unset" /\ processor = "unset"
        /\ ~(UnknownOperation \/ GroundingWithoutCaption \/ SegmentationWithoutExpression) =>
               /\ pc # "init_raised"
               /\ params = kwargs
               /\ pc = "init_model" => model = "unset" /\ processor = "unset"
               /\ pc # "init_model" => model = "loaded"

\* phrase_grounding was refused although other parameters were given, and
\* nothing was loaded
C9_Witness ==
    /\ pc = "init_raised"
    /\ operation = "phrase_grounding"
    /\ Has("expression") /\ Has("detail_level")
    /\ result.kind = "raise"
    /\ model = "unset" /\ processor = "unset"

\* segmentation passed validation with the expression_field alone and the
\* model was loaded
C9_WitnessValid ==
    /\ pc = "init_processor"
    /\ operation = "segmentation"
    /\ DOMAIN kwargs = {"expression_field"}
    /\ model = "loaded"

---------------------------------------------------------------------------
(* Task selection *)

Predicted(op) == operation = op /\ pc \in {"returned", "raised"}
\* the value of a parameter is v
Given(name, v) == name \in DOMAIN params /\ params[name] = v
Absent(name) == name \notin DOMAIN params
Unrecognized(name, known) ==
    name \in DOMAIN params /\ params[name] \notin { Str(k) : k \in known }

C10_WitnessDetection ==
    /\ Predicted("detection")
    /\ Absent("detection_type")
    /\ task = "<OD>"
    /\ result.kind = "Detections"

---------------------------------------------------------------------------
(* Prompts *)

\* the texts that consist of the task identifier with the payload appended
Appended(t, payload) == { t \o sep \o payload : sep \in {"", " ", "\n"} }

\* C11: for detection with a text_prompt, whatever the detection_type, the
\* text handed to the processor is the selected task identifier with the
\* text_prompt appended; without a text_prompt it is the task identifier
\* alone.
C11_DetectionPrompt ==
    Predicted("detection") =>
        /\ task \in { detection_task_mapping[k] : k \in DOMAIN detection_task_mapping }
        /\ IF "text_prompt" \in DOMAIN params /\ params["text_prompt"] # None
           THEN text \in Appended(task, params["text_prompt"][1])
           ELSE text = task

\* C12: the phrase_grounding prompt is <CAPTION_TO_PHRASE_GROUNDING>
\* followed by the caption, the segmentation prompt is
\* <REFERRING_EXPRESSION_SEGMENTATION> followed by "Expression: " and the
\* expression; the literal parameter is the text whenever it is in the
\* parameter store and the field parameter's value only when the literal is
\* absent; the bare task identifier is the key of the post-processed answer
\* from which the result is taken.
C12_PayloadPrompts ==
    /\ Predicted("phrase_grounding") =>
        /\ task = "<CAPTION_TO_PHRASE_GROUNDING>"
        /\ \A c \in ParamValues["caption"] :
              Given("caption", c) => text = task \o "\n" \o c[1]
        /\ \A f \in ParamValues["caption_field"] :
              Absent("caption") /\ Given("caption_field", f) =>
                  text = task \o "\n" \o f[1]
        /\ DOMAIN parsed_answer = {task}
        /\ result = _extract_detections(parsed_answer, task, image)
    /\ Predicted("segmentation") =>
        /\ task = "<REFERRING_EXPRESSION_SEGMENTATION>"
        /\ \A e \in ParamValues["expression"] :
              Given("expression", e) =>
                  text = task \o "\n" \o "Expression: " \o e[1]
        /\ \A f \in ParamValues["expression_field"] :
              Absent("expression") /\ Given("expression_field", f) =>
                  text = task \o "\n" \o "Expression: " \o f[1]
        /\ DOMAIN parsed_answer = {task}
        /\ result = _extract_polylines(parsed_answer, task, image)

\* a phrase_grounding prediction of an adapter given both the literal
\* caption and the caption field
C12_Witness ==
    /\ Predicted("phrase_grounding")
    /\ ~Absent("caption") /\ ~Absent("caption_field")
    /\ text = "<CAPTION_TO_PHRASE_GROUNDING>" \o "\n" \o "a cat on a mat"
    /\ result.kind = "Detections"

\* a segmentation prediction of an adapter given the expression field only
C12_WitnessField ==
    /\ Predicted("segmentation")
    /\ Absent("expression")
    /\ text = "<REFERRING_EXPRESSION_SEGMENTATION>" \o "\n" \o "Expression: my_expressions"

---------------------------------------------------------------------------
(* Dispatch *)

\* the adapter was constructed successfully
Built == pc \in {"ready", "returned", "raised"}
\* self.operation is still the operation selected at construction
AsConstructed == operation = requested
UnknownOperationError == ValueError("Unknown operation", <<operation>>)
\* a step that is one whole call of predict
PredictStep == Built /\ pc' \in {"returned", "raised"} /\ operation' = operation

\* C13: every predict of a successfully constructed adapter runs exactly
\* one handler, the one of the operation selected at construction, and
\* makes exactly one inference call; such an adapter never fails with
\* "Unknown operation"; a predict made while the operation is none of the
\* five fails with that error, runs no handler and calls the model not at
\* all.
C13_Dispatch ==
    /\ [](Built /\ AsConstructed =>
            /\ operation \in TheFiveOperations
            /\ predict_method(operation) # "None"
            /\ result # UnknownOperationError)
    /\ [][PredictStep =>
            /\ AsConstructed =>
                /\ handler' = "_predict_" \o requested
                /\ Cardinality({ op \in TheFiveOperations :
                                   handler' = "_predict_" \o op }) = 1
                /\ n_generate' = 1
            /\ operation \notin TheFiveOperations =>
                /\ result' = UnknownOperationError
                /\ pc' = "raised"
                /\ handler' = "none"
                /\ n_generate' = 0
                /\ <<text, parsed_answer>>' = <<text, parsed_answer>>]_vars

\* a predict that failed at dispatch, on an adapter constructed for one of
\* the five operations
C13_Witness ==
    /\ requested \in TheFiveOperations
    /\ pc = "raised"
    /\ result = UnknownOperationError
    /\ n_generate = 0

\* a predict routed to the handler of the constructed operation
C13_WitnessRouted ==
    /\ AsConstructed
    /\ pc = "returned"
    /\ handler = "_predict_segmentation"
    /\ n_generate = 1

---------------------------------------------------------------------------
(* The per-sample loops *)

\* the prompt built from the text v for the operation of the run
PromptOf(v) ==
    IF operation = "phrase_grounding"
    THEN "<CAPTION_TO_PHRASE_GROUNDING>" \o "\n" \o Format(v)
    ELSE "<REFERRING_EXPRESSION_SEGMENTATION>" \o "\n" \o "Expression: " \o Format(v)
\* the name of the field, which the adapter was constructed with
FieldName == params[field_param(operation)]
Samples == DOMAIN dataset
Inferred(i) == prompts[i] # ""
Written(i) == outputs[i] # NoOutput
\* the samples the loop w has not come to yet
Later(w) == { todo[w][j] : j \in 2..Len(todo[w]) }

\* where the single loop stands: the samples before the current one are
\* finished, the ones after it untouched, and inside the body each step
\* has the earlier steps of the same sample behind it
SerialState ==
    /\ \A j \in 1..Len(todo[1]) : todo[1][j] = Len(dataset) - Len(todo[1]) + j
    /\ \A i \in Samples :
          /\ i \notin { todo[1][j] : j \in 1..Len(todo[1]) } => Inferred(i) /\ Written(i)
          /\ i \in Later(1) => ~Inferred(i) /\ ~Written(i)
          /\ Written(i) => Inferred(i)
          /\ Inferred(i) =>
                /\ prompts[i] = PromptOf(dataset[i])
                /\ prompts[i] # PromptOf(FieldName)
                /\ \A k \in Samples :
                      k < i /\ dataset[k] # dataset[i] => prompts[i] # PromptOf(dataset[k])
    /\ step[1] \in {"store", "infer", "write"} =>
          /\ field_value[1] = dataset[Current(1)]
          /\ ~Written(Current(1))
    /\ step[1] \in {"read", "store"} /\ todo[1] # <<>> => ~Inferred(Current(1))
    /\ step[1] \in {"infer", "write"} =>
          params[literal_param(operation)] = dataset[Current(1)]
    /\ step[1] = "write" => Inferred(Current(1))

\* the order of the steps of the loop body
SerialStep ==
    /\ step'[1] # step[1] =>
          <<step[1], step'[1]>> \in
              { <<"read", "store">>, <<"store", "infer">>, <<"infer", "write">>,
                <<"write", "read">>, <<"read", "raised">>, <<"infer", "raised">>,
                <<"read", "done">> }
    /\ prompts' # prompts =>
          /\ step[1] = "infer"
          /\ text' = PromptOf(dataset[Current(1)])
          /\ \A i \in Samples : i # Current(1) => prompts'[i] = prompts[i]
    /\ outputs' # outputs =>
          /\ step[1] = "write"
          /\ outputs'[Current(1)] = sample_result[1]
          /\ \A i \in Samples : i # Current(1) => outputs'[i] = outputs[i]
          /\ todo'[1] = Tail(todo[1])

\* C14: the per-sample loop takes the samples one at a time in iteration
\* order and, for each, reads the field, stores it in the parameter store,
\* runs the inference and writes the output of that sample, in this order;
\* so every inference uses the text read from its own sample, never the
\* text of an earlier sample nor the field name.
C14_SerialLoop == []SerialState /\ [][SerialStep]_vars

\* the second sample has been inferred with its own text, different from
\* the first sample's, and both outputs are written
C14_Witness ==
    /\ Len(dataset) >= 2
    /\ dataset[1] # dataset[2]
    /\ Written(1) /\ Written(2)
    /\ prompts[1] = PromptOf(dataset[1])
    /\ prompts[2] = PromptOf(dataset[2])

---------------------------------------------------------------------------
(* Interleaved invocations on one adapter *)

\* the invocation for sample j has written its text into the parameter store
HasStored(j) ==
    /\ dataset[j] # Unreadable
    /\ ~(step[j] \in {"read", "store"} /\ todo[j] # <<>>)

\* every inference builds its prompt from what the shared store holds: the
\* text of its own sample or, once the other invocation has stored, the
\* other sample's
SharedStoreState ==
    \A i \in Samples :
        Inferred(i) =>
            \E j \in Samples :
                /\ prompts[i] = PromptOf(dataset[j])
                /\ j # i => HasStored(j)

SharedStoreStep ==
    \A i \in Samples :
        prompts'[i] # prompts[i] =>
            /\ step[i] = "infer"
            /\ prompts'[i] = PromptOf(params[literal_param(operation)])

\* C15: two per-sample invocations interleaved on one adapter share the
\* parameter store; an inference reads whatever text the store holds at
\* that moment, so an interleaving is reachable in which the result stored
\* for one sample was inferred from the text of the other (C15_Witness).
C15_SharedStore == []SharedStoreState /\ [][SharedStoreStep]_vars

\* the output of sample 1 is written, inferred from the different text of
\* sample 2
C15_Witness ==
    /\ DOMAIN todo = Invocations
    /\ dataset[1] # dataset[2]
    /\ Written(1)
    /\ prompts[1] = PromptOf(dataset[2])
    /\ prompts[1] # PromptOf(dataset[1])

---------------------------------------------------------------------------
(* Failures in the per-sample loops *)

\* run_florence2_model has raised
Propagated == step[1] = "raised"
\* the exception came from the read of the field
ReadFailed == Propagated /\ dataset[Current(1)] = Unreadable
\* the exception came from predict
PredictFailed == Propagated /\ dataset[Current(1)] # Unreadable

\* what a failure leaves behind
FailureState ==
    /\ todo[1] # <<>> /\ dataset[Current(1)] = Unreadable =>
          step[1] \in {"read", "raised"}
    /\ pc = "raised" => PredictFailed /\ result.kind = "raise"
    /\ Propagated =>
          /\ todo[1] # <<>>
          /\ ~Written(Current(1))
          /\ ReadFailed => ~Inferred(Current(1))
          /\ PredictFailed =>
                /\ pc = "raised"
                /\ result.exc \in {"RuntimeError", "ValueError", "IndexError"}
                /\ n_generate = 1
          /\ \A i \in Later(1) : ~Inferred(i) /\ ~Written(i)
          /\ \A i \in Samples : i < Current(1) => Written(i)

\* a failing step ends the run, and nothing happens after it
FailureStep ==
    /\ ~Propagated
    /\ step[1] = "read" /\ todo[1] # <<>> /\ dataset[Current(1)] = Unreadable =>
          Propagated' /\ outputs' = outputs /\ prompts' = prompts
    /\ step[1] = "infer" /\ result'.kind = "raise" =>
          Propagated' /\ outputs' = outputs /\ todo' = todo

\* C16: a failure on a sample of the per-sample loop, in the field read, the
\* inference or the geometry conversion, propagates out of
\* run_florence2_model: the failing sample gets no output, no later sample
\* is read, inferred or written, nothing is retried, and the outputs of the
\* earlier samples stay as written.
C16_FailurePropagates == []FailureState /\ [][FailureStep]_vars

\* the geometry conversion failed on the second of three samples
C16_Witness ==
    /\ Len(dataset) = 3
    /\ PredictFailed
    /\ Current(1) = 2
    /\ result.exc \in {"ValueError", "IndexError"}
    /\ Written(1) /\ ~Written(2) /\ ~Written(3)

\* the field read failed on the second sample
C16_WitnessRead ==
    /\ Len(dataset) >= 2
    /\ ReadFailed
    /\ Current(1) = 2
    /\ Written(1)

\* the inference failed on the first sample
C16_WitnessInference ==
    /\ Len(dataset) >= 2
    /\ PredictFailed
    /\ Current(1) = 1
    /\ result.exc = "RuntimeError"

===========================================================================
